---- MODULE Spec2Model ----
(***************************************************************************)
(* Model of internal/certificate.go of x509-certificate-exporter: the PEM  *)
(* decoder (parsePEM), the three readers (readAndParsePEMFile,             *)
(* readAndParseYAMLFile, readAndParseKubeSecret) and the dispatcher        *)
(* certificateRef.parse.                                                   *)
(*                                                                         *)
(* Byte buffers are sequences of elements: a PEM block carrying a DER      *)
(* payload, or a run of bytes that is not a PEM block.  Texts printed by   *)
(* the yq evaluator are sequences of tokens: the base64 encoding of a      *)
(* buffer element, a newline, a byte outside the base64 alphabet, or a     *)
(* word of plain text (a file name, an identity label).                    *)
(***************************************************************************)
EXTENDS Integers, Sequences, FiniteSets, TLC

VARIABLES pemData, pemResult, refs, pc, idx, output, rawCerts, certs, ret, err, log

vars == <<pemData, pemResult, refs, pc, idx, output, rawCerts, certs, ret, err, log>>

(* ---------------- bounds ---------------- *)
MaxBlocks == 3      \* elements in a buffer handed to parsePEM directly
MaxPairs == 2       \* path-expression pairs of a structured-document source
MaxMatches == 2     \* items in the output of a certificate-expression

(* ---------------- errors ---------------- *)
NoErr == "nil"
ErrIO == "io: cannot read file"
ErrQuery == "yq failed | stderr"
ErrMalformed == "tried to parse malformed x509 data"
ErrLabels == "failed to parse some labels"
ErrNoKey == "secret has no key tls.crt"

(* ---------------- PEM buffers ---------------- *)
Block(der) == [kind |-> "block", der |-> der]
Junk == [kind |-> "junk", der |-> 0]
\* DER payloads: n >= 1 encodes the certificate of serial number n, 0 is corrupt
CorruptDER == 0
Elements == {Block(CorruptDER), Block(1), Block(2), Junk}

RECURSIVE SeqsUpTo(_, _)
SeqsUpTo(S, n) ==
  IF n = 0 THEN {<<>>}
  ELSE LET shorter == SeqsUpTo(S, n - 1)
       IN shorter \cup {Append(q, x) : q \in {r \in shorter : Len(r) = n - 1}, x \in S}

Buffers == SeqsUpTo(Elements, MaxBlocks)

\* x509.ParseCertificate: the certificate a DER payload decodes to, or an error
x509ParseCertificate(der) ==
  IF der >= 1 THEN [cert |-> [serial |-> der], err |-> FALSE]
  ELSE [cert |-> [serial |-> 0], err |-> TRUE]

\* pem.Decode: the first PEM block of data and what follows it; bytes that are
\* not part of a block are skipped; found = FALSE when no block is left
RECURSIVE pemDecode(_)
pemDecode(data) ==
  IF data = <<>> THEN [found |-> FALSE, block |-> Junk, rest |-> data]
  ELSE IF Head(data).kind = "block"
       THEN [found |-> TRUE, block |-> Head(data), rest |-> Tail(data)]
       ELSE pemDecode(Tail(data))

\* parsePEM as it would be if a malformed block were skipped
RECURSIVE parsePEMLoopSkipsMalformed(_, _)
parsePEMLoopSkipsMalformed(data, out) ==
  LET d == pemDecode(data)
  IN IF ~d.found THEN [certs |-> out, err |-> NoErr]
     ELSE LET c == x509ParseCertificate(d.block.der)
          IN IF c.err THEN parsePEMLoopSkipsMalformed(d.rest, out)
             ELSE parsePEMLoopSkipsMalformed(d.rest, Append(out, c.cert))

\* parsePEM as it would be if each certificate were put ahead of the others
RECURSIVE parsePEMLoopReversed(_, _)
parsePEMLoopReversed(data, out) ==
  LET d == pemDecode(data)
  IN IF ~d.found THEN [certs |-> out, err |-> NoErr]
     ELSE LET c == x509ParseCertificate(d.block.der)
          IN IF c.err THEN [certs |-> <<>>, err |-> ErrMalformed]
             ELSE parsePEMLoopReversed(d.rest, <<c.cert>> \o out)

RECURSIVE parsePEMLoop(_, _)
\* the for loop of parsePEM, with its local output
parsePEMLoop(data, out) ==
  LET d == pemDecode(data)
  IN IF ~d.found THEN [certs |-> out, err |-> NoErr]
     ELSE LET c == x509ParseCertificate(d.block.der)
          IN IF c.err THEN [certs |-> <<>>, err |-> ErrMalformed]
             ELSE parsePEMLoop(d.rest, Append(out, c.cert))

parsePEM(data) == parsePEMLoop(data, <<>>)

Pending == [certs |-> <<>>, err |-> "pending"]

(* ---------------- texts ---------------- *)
\* base64 of one buffer element
B64(e) == [k |-> "b64", kind |-> e.kind, der |-> e.der, s |-> ""]
\* "\n"
NL == [k |-> "nl", kind |-> "", der |-> 0, s |-> ""]
\* a byte outside the base64 alphabet
BadChar == [k |-> "chr", kind |-> "", der |-> 0, s |-> "!"]
\* plain text holding no newline
Word(w) == [k |-> "word", kind |-> "", der |-> 0, s |-> w]

RECURSIVE Lines(_)
\* the text printing each item of a sequence on a line of its own
Lines(items) == IF items = <<>> THEN <<>> ELSE <<Head(items), NL>> \o Lines(Tail(items))

\* base64.StdEncoding.Decode into a zero-filled buffer of DecodedLen(len(src))
\* bytes: newlines are ignored, decoding stops at the first byte that is not
\* base64 (a file name holds a '.'), what was decoded stays in the buffer and
\* the unused tail of the buffer stays zero
RECURSIVE base64Decode(_)
base64Decode(src) ==
  IF src = <<>> THEN [bytes |-> <<>>, err |-> FALSE]
  ELSE LET t == Head(src)
       IN CASE t.k = "nl"  -> base64Decode(Tail(src))
            [] t.k = "b64" -> LET r == base64Decode(Tail(src))
                              IN [bytes |-> <<[kind |-> t.kind, der |-> t.der]>> \o r.bytes,
                                  err |-> r.err]
            [] OTHER       -> [bytes |-> <<>>, err |-> TRUE]

ZeroTail(src) == IF \E i \in 1..Len(src) : src[i].k # "b64" THEN <<Junk>> ELSE <<>>

\* strings.TrimRight(text, "\n")
RECURSIVE TrimRightNL(_)
TrimRightNL(text) ==
  IF text # <<>> /\ text[Len(text)].k = "nl"
  THEN TrimRightNL(SubSeq(text, 1, Len(text) - 1))
  ELSE text

\* strings.Split(text, "\n"): the segments between newlines, empty ones included
RECURSIVE SplitNL(_, _)
SplitNL(text, cur) ==
  IF text = <<>> THEN <<cur>>
  ELSE IF Head(text).k = "nl" THEN <<cur>> \o SplitNL(Tail(text), <<>>)
       ELSE SplitNL(Tail(text), Append(cur, Head(text).s))

\* the loop over strings.Split keeping the userIDs that are not ""
RECURSIVE NonEmpty(_)
NonEmpty(segs) ==
  IF segs = <<>> THEN <<>>
  ELSE IF Head(segs) # <<>> THEN <<Head(segs)>> \o NonEmpty(Tail(segs))
       ELSE NonEmpty(Tail(segs))

splitUserIDs(rawUserIDs) == NonEmpty(SplitNL(rawUserIDs, <<>>))

(* ---------------- paths and files ---------------- *)
DocPath == <<Word("/etc/kube"), Word("config")>>
filepathDir(p) == SubSeq(p, 1, Len(p) - 1)
pathJoin(dir, rel) == dir \o rel
\* the files that exist beside the modelled sources; any other path is absent
ExistingFiles == {DocPath, <<Word("/etc/kube"), Word("ca.crt")>>}

(* ---------------- certificate sources ---------------- *)
YAMLCertFormatFile == 0
YAMLCertFormatBase64 == 1
certificateFormatPEM == 0
certificateFormatYAML == 1
certificateFormatKubeSecret == 2

DefaultYamlPaths == <<
  [CertMatchExpr |-> "clusters.[*].cluster.certificate-authority-data",
   IDMatchExpr |-> "clusters.[*].name", Format |-> YAMLCertFormatBase64],
  [CertMatchExpr |-> "clusters.[*].cluster.certificate-authority",
   IDMatchExpr |-> "clusters.[*].name", Format |-> YAMLCertFormatFile],
  [CertMatchExpr |-> "users.[*].user.client-certificate-data",
   IDMatchExpr |-> "users.[*].name", Format |-> YAMLCertFormatBase64],
  [CertMatchExpr |-> "users.[*].user.client-certificate",
   IDMatchExpr |-> "users.[*].name", Format |-> YAMLCertFormatFile] >>

(* ---------------- specification of the decoder alone ---------------- *)
InitPEM ==
  /\ pemData \in Buffers
  /\ pemResult = Pending
  /\ refs = <<>> /\ pc = <<>> /\ idx = <<>> /\ output = <<>>
  /\ rawCerts = <<>> /\ certs = <<>> /\ ret = <<>> /\ err = <<>> /\ log = <<>>

DecodeBuffer ==
  /\ pemResult = Pending
  /\ pemResult' = parsePEM(pemData)
  /\ UNCHANGED <<pemData, refs, pc, idx, output, rawCerts, certs, ret, err, log>>

NextPEM == DecodeBuffer

SpecPEM == InitPEM /\ [][NextPEM]_vars

(* ---------------- inputs ---------------- *)
PairCatalog == {DefaultYamlPaths[1], DefaultYamlPaths[2]}
YamlPathChoices == SeqsUpTo(PairCatalog, MaxPairs)

\* n well-formed blocks, the i-th holding certificate i
GoodBlocks(n) == [i \in 1..n |-> Block(i)]
\* a sequence with the item at position p replaced
Replace(q, p, x) == [q EXCEPT ![p] = x]
\* <<n, p>>: a position p in a sequence of n items
Positions == {np \in (1..MaxMatches) \X (1..MaxMatches) : np[2] <= np[1]}
\* buffers of up to MaxMatches blocks, all well-formed or one of them replaced
\* by a block with a corrupt payload or by bytes that are no PEM block
FileContents ==
  {GoodBlocks(n) : n \in 0..MaxMatches}
    \cup {Replace(GoodBlocks(np[1]), np[2], x) :
            np \in Positions, x \in {Block(CorruptDER), Junk}}

RECURSIVE Encode(_)
\* base64 of each element of a buffer
Encode(buf) == IF buf = <<>> THEN <<>> ELSE <<B64(Head(buf))>> \o Encode(Tail(buf))

\* what yq can print for a certificate-expression, one line per match: nothing,
\* base64 values (one of them possibly corrupt or not base64), or a file name
CertTexts ==
  {Lines(Encode(GoodBlocks(n))) : n \in 0..MaxMatches}
    \cup {Lines(Replace(Encode(GoodBlocks(np[1])), np[2], x)) :
            np \in Positions, x \in {B64(Block(CorruptDER)), BadChar}}
    \cup {Lines(<<Word("ca.crt")>>)}

\* what yq can print for an identity-expression: the first n names, one per
\* line, with or without the final newline or after a blank line
Names == <<"prod", "dev", "qa", "stage", "test">>
LabelLines(n) == [i \in 1..n |-> Word(Names[i])]
IDTexts ==
  {Lines(LabelLines(n)) : n \in 0..MaxMatches}
    \cup {TrimRightNL(Lines(LabelLines(n))) : n \in 0..MaxMatches}
    \cup {<<NL>> \o Lines(LabelLines(n)) : n \in 0..MaxMatches}

NoSecret == [name |-> "", Data |-> <<>>]
Secrets ==
  {[name |-> "web-tls", Data |-> [k \in {"tls.crt"} |-> b]] : b \in FileContents}
    \cup {[name |-> "web-tls", Data |-> [k \in {"ca.crt"} |-> GoodBlocks(1)]]}

certificateRef(format, yamlPaths, kubeSecret) ==
  [path |-> DocPath, format |-> format, certificates |-> <<>>, userIDs |-> <<>>,
   yamlPaths |-> yamlPaths, kubeSecret |-> kubeSecret]

SourceChoices ==
  {certificateRef(certificateFormatPEM, <<>>, NoSecret)}
    \cup {certificateRef(certificateFormatYAML, y, NoSecret) : y \in YamlPathChoices}
    \cup {certificateRef(certificateFormatKubeSecret, <<>>, k) : k \in Secrets}

parsedCertificate(cert, userID, yqMatchExpr) ==
  [cert |-> cert, userID |-> userID, yqMatchExpr |-> yqMatchExpr]

Sources == DOMAIN refs
NoRet == [records |-> <<>>, err |-> "pending"]

\* history of a parse() call: the readers it entered; for a direct file or a
\* secret, how the file read and parsePEM went; for a structured document, one
\* entry per pair whose certificate-expression was evaluated, holding how each
\* operation went ("none" when it was not done), the certificates and the
\* labels obtained, and the number of records appended
NoHistory == [calls |-> <<>>, file |-> "none", pem |-> "none", certs |-> <<>>, pairs |-> <<>>]
PairHistory(exitOK, out) ==
  [cert |-> IF exitOK THEN "ok" ELSE "failed",
   matched |-> out # <<>>,
   b64 |-> "none", file |-> "none", pem |-> "none", certs |-> <<>>,
   id |-> "none", ids |-> <<>>, emitted |-> 0]
Went(ok) == IF ok THEN "ok" ELSE "failed"

(* ---------------- the state machine ---------------- *)
InitSources(S, choices) ==
  /\ pemData = <<>>
  /\ pemResult = [certs |-> <<>>, err |-> NoErr]
  /\ refs \in [S -> choices]
  /\ pc = [s \in S |-> "idle"]
  /\ idx = [s \in S |-> 0]
  /\ output = [s \in S |-> <<>>]
  /\ rawCerts = [s \in S |-> <<>>]
  /\ certs = [s \in S |-> <<>>]
  /\ ret = [s \in S |-> NoRet]
  /\ err = [s \in S |-> "pending"]
  /\ log = [s \in S |-> NoHistory]

Init == InitSources({1}, SourceChoices)

\* the switch as it would be with the secret case falling into the file reader
readerForFallthrough(format) ==
  CASE format = certificateFormatPEM -> "readAndParsePEMFile"
    [] format = certificateFormatYAML -> "readAndParseYAMLFile"
    [] format = certificateFormatKubeSecret -> "readAndParsePEMFile"
    [] OTHER -> "return"

\* the switch of parse(): the reader a format selects
readerFor(format) ==
  CASE format = certificateFormatPEM -> "readAndParsePEMFile"
    [] format = certificateFormatYAML -> "readAndParseYAMLFile"
    [] format = certificateFormatKubeSecret -> "readAndParseKubeSecret"
    [] OTHER -> "return"

\* parse(): enters the reader of cert.format; with no case taken err stays nil
\* and cert.certificates is not assigned
parse(s) ==
  /\ pc[s] = "idle"
  /\ pc' = [pc EXCEPT ![s] = readerFor(refs[s].format)]
  /\ ret' = [ret EXCEPT ![s] =
       IF readerFor(refs[s].format) = "return"
       THEN [records |-> refs[s].certificates, err |-> NoErr] ELSE NoRet]
  /\ UNCHANGED <<pemData, pemResult, refs, idx, output, rawCerts, certs, err, log>>

\* a reader returning what it accumulated along with the error
abortReadKeepsOutput(out, e) == [records |-> out, err |-> e]

\* "return nil, err" of a reader
abortRead(out, e) == [records |-> <<>>, err |-> e]

RECURSIVE bareRecords(_)
\* the loop wrapping each certificate into a record with no userID, no expression
bareRecords(cs) ==
  IF cs = <<>> THEN <<>>
  ELSE <<parsedCertificate(Head(cs), <<>>, "")>> \o bareRecords(Tail(cs))

\* parsePEM and the records built from its certificates
fromPEM(data) ==
  LET r == parsePEM(data)
  IN [ret |-> IF r.err # NoErr THEN abortRead(<<>>, r.err)
              ELSE [records |-> bareRecords(r.certs), err |-> NoErr],
      pem |-> Went(r.err = NoErr),
      certs |-> r.certs]

readAndParsePEMFile(s) ==
  /\ pc[s] = "readAndParsePEMFile"
  /\ \E readOK \in BOOLEAN, contents \in FileContents :
       /\ readOK \/ contents = <<>>
       /\ IF ~readOK \/ refs[s].path \notin ExistingFiles
          THEN /\ ret' = [ret EXCEPT ![s] = abortRead(<<>>, ErrIO)]
               /\ log' = [log EXCEPT ![s].calls = Append(@, "readAndParsePEMFile"),
                                     ![s].file = "failed"]
          ELSE /\ ret' = [ret EXCEPT ![s] = fromPEM(contents).ret]
               /\ log' = [log EXCEPT ![s].calls = Append(@, "readAndParsePEMFile"),
                                     ![s].file = "ok",
                                     ![s].pem = fromPEM(contents).pem,
                                     ![s].certs = fromPEM(contents).certs]
  /\ pc' = [pc EXCEPT ![s] = "return"]
  /\ UNCHANGED <<pemData, pemResult, refs, idx, output, rawCerts, certs, err>>

readAndParseKubeSecret(s) ==
  /\ pc[s] = "readAndParseKubeSecret"
  /\ LET data == refs[s].kubeSecret.Data
     IN IF "tls.crt" \notin DOMAIN data
        THEN /\ ret' = [ret EXCEPT ![s] = abortRead(<<>>, ErrNoKey)]
             /\ log' = [log EXCEPT ![s].calls = Append(@, "readAndParseKubeSecret")]
        ELSE /\ ret' = [ret EXCEPT ![s] = fromPEM(data["tls.crt"]).ret]
             /\ log' = [log EXCEPT ![s].calls = Append(@, "readAndParseKubeSecret"),
                                   ![s].pem = fromPEM(data["tls.crt"]).pem,
                                   ![s].certs = fromPEM(data["tls.crt"]).certs]
  /\ pc' = [pc EXCEPT ![s] = "return"]
  /\ UNCHANGED <<pemData, pemResult, refs, idx, output, rawCerts, certs, err>>

\* output as a variable of the package, shared by every call
sharedFrame(s) == 1

\* the call whose local variable output a running readAndParseYAMLFile uses:
\* output is declared inside the function, one per call
frameOf(s) == s

\* readAndParseYAMLFile, entry: output := []*parsedCertificate{}
yamlBegin(s) ==
  /\ pc[s] = "readAndParseYAMLFile"
  /\ output' = [output EXCEPT ![frameOf(s)] = <<>>]
  /\ idx' = [idx EXCEPT ![s] = 1]
  /\ pc' = [pc EXCEPT ![s] = "yaml"]
  /\ log' = [log EXCEPT ![s].calls = Append(@, "readAndParseYAMLFile")]
  /\ UNCHANGED <<pemData, pemResult, refs, rawCerts, certs, ret, err>>

\* the empty match not recognised
noMatchNever(out) == FALSE

\* if len(rawCerts) == 0 { continue }
noMatch(out) == Len(out) = 0

\* readAndParseYAMLFile, head of one loop iteration: the loop ends with the
\* accumulated output, or yq evaluates the certificate-expression
yamlCertMatch(s) ==
  /\ pc[s] = "yaml"
  /\ IF idx[s] > Len(refs[s].yamlPaths)
     THEN /\ ret' = [ret EXCEPT ![s] = [records |-> output[frameOf(s)], err |-> NoErr]]
          /\ pc' = [pc EXCEPT ![s] = "return"]
          /\ UNCHANGED <<idx, rawCerts, log>>
     ELSE \E exitOK \in BOOLEAN, out \in CertTexts :
            /\ log' = [log EXCEPT ![s].pairs = Append(@, PairHistory(exitOK, out))]
            /\ IF ~exitOK
               THEN /\ ret' = [ret EXCEPT ![s] = abortRead(output[frameOf(s)], ErrQuery)]
                    /\ pc' = [pc EXCEPT ![s] = "return"]
                    /\ UNCHANGED <<idx, rawCerts>>
               ELSE IF noMatch(out)
               THEN /\ idx' = [idx EXCEPT ![s] = @ + 1]
                    /\ UNCHANGED <<ret, pc, rawCerts>>
               ELSE /\ rawCerts' = [rawCerts EXCEPT ![s] = out]
                    /\ pc' = [pc EXCEPT ![s] = "decode"]
                    /\ UNCHANGED <<ret, idx>>
  /\ UNCHANGED <<pemData, pemResult, refs, output, certs, err>>

\* readAndParseYAMLFile, parsePEM(decodedCerts) and its error check; h is the
\* history of the pair up to the decoding
yamlParsePEM(s, bytes, h) ==
  LET r == parsePEM(bytes)
  IN /\ log' = [log EXCEPT ![s].pairs[idx[s]] =
          [h EXCEPT !.pem = Went(r.err = NoErr), !.certs = r.certs]]
     /\ IF r.err # NoErr
        THEN /\ ret' = [ret EXCEPT ![s] = abortRead(output[frameOf(s)], r.err)]
             /\ pc' = [pc EXCEPT ![s] = "return"]
             /\ UNCHANGED certs
        ELSE /\ certs' = [certs EXCEPT ![s] = r.certs]
             /\ pc' = [pc EXCEPT ![s] = "ids"]
             /\ UNCHANGED ret

\* readAndParseYAMLFile, decoding of the match: base64 with the error of Decode
\* dropped, or the file the match names beside the document
yamlDecode(s) ==
  /\ pc[s] = "decode"
  /\ LET exprs == refs[s].yamlPaths[idx[s]]
         h == log[s].pairs[idx[s]]
     IN IF exprs.Format = YAMLCertFormatBase64
        THEN LET d == base64Decode(rawCerts[s])
             IN yamlParsePEM(s, d.bytes \o ZeroTail(rawCerts[s]),
                             [h EXCEPT !.b64 = Went(~d.err)])
        ELSE LET certPath == pathJoin(filepathDir(refs[s].path), rawCerts[s])
             IN \E readOK \in BOOLEAN, contents \in FileContents :
                  /\ readOK \/ contents = <<>>
                  /\ IF ~readOK \/ TrimRightNL(certPath) \notin ExistingFiles
                     THEN /\ ret' = [ret EXCEPT ![s] = abortRead(output[frameOf(s)], ErrIO)]
                          /\ pc' = [pc EXCEPT ![s] = "return"]
                          /\ log' = [log EXCEPT ![s].pairs[idx[s]].file = "failed"]
                          /\ UNCHANGED certs
                     ELSE yamlParsePEM(s, contents, [h EXCEPT !.file = "ok"])
  /\ UNCHANGED <<pemData, pemResult, refs, idx, output, rawCerts, err>>

\* the count check letting surplus labels through
labelsMismatchAcceptsExtra(userIDs, cs) == Len(userIDs) < Len(cs)

\* if len(userIDs) != len(certs)
labelsMismatch(userIDs, cs) == Len(userIDs) # Len(cs)

RECURSIVE zipRecordsTaggedWithID(_, _, _)
\* the records tagged with the identity-expression
zipRecordsTaggedWithID(cs, userIDs, exprs) ==
  IF cs = <<>> THEN <<>>
  ELSE <<parsedCertificate(Head(cs), Head(userIDs), exprs.IDMatchExpr)>>
         \o zipRecordsTaggedWithID(Tail(cs), Tail(userIDs), exprs)

RECURSIVE zipRecords(_, _, _)
\* the loop appending one parsedCertificate per certificate
zipRecords(cs, userIDs, exprs) ==
  IF cs = <<>> THEN <<>>
  ELSE <<parsedCertificate(Head(cs), Head(userIDs), exprs.CertMatchExpr)>>
         \o zipRecords(Tail(cs), Tail(userIDs), exprs)

\* readAndParseYAMLFile, the identity labels (the error of yq dropped), the
\* count check and the records
yamlIDMatch(s) ==
  /\ pc[s] = "ids"
  /\ \E exitOK \in BOOLEAN, rawUserIDs \in IDTexts :
       LET exprs == refs[s].yamlPaths[idx[s]]
           userIDs == splitUserIDs(rawUserIDs)
       IN IF labelsMismatch(userIDs, certs[s])
          THEN /\ ret' = [ret EXCEPT ![s] = abortRead(output[frameOf(s)], ErrLabels)]
               /\ pc' = [pc EXCEPT ![s] = "return"]
               /\ log' = [log EXCEPT ![s].pairs[idx[s]].id = Went(exitOK),
                                     ![s].pairs[idx[s]].ids = userIDs]
               /\ UNCHANGED <<output, idx>>
          ELSE /\ output' = [output EXCEPT ![frameOf(s)] =
                    @ \o zipRecords(certs[s], userIDs, exprs)]
               /\ idx' = [idx EXCEPT ![s] = @ + 1]
               /\ pc' = [pc EXCEPT ![s] = "yaml"]
               /\ log' = [log EXCEPT ![s].pairs[idx[s]].id = Went(exitOK),
                                     ![s].pairs[idx[s]].ids = userIDs,
                                     ![s].pairs[idx[s]].emitted =
                                       Len(output'[frameOf(s)]) - Len(output[frameOf(s)])]
               /\ UNCHANGED ret
  /\ UNCHANGED <<pemData, pemResult, refs, rawCerts, certs, err>>

\* parse(): cert.certificates, err = <reader>(...); return err
parseReturn(s) ==
  /\ pc[s] = "return"
  /\ refs' = [refs EXCEPT ![s].certificates = ret[s].records]
  /\ err' = [err EXCEPT ![s] = ret[s].err]
  /\ pc' = [pc EXCEPT ![s] = "done"]
  /\ UNCHANGED <<pemData, pemResult, idx, output, rawCerts, certs, ret, log>>

Next ==
  \/ \E s \in Sources : parse(s)
  \/ \E s \in Sources : readAndParsePEMFile(s)
  \/ \E s \in Sources : readAndParseKubeSecret(s)
  \/ \E s \in Sources : yamlBegin(s)
  \/ \E s \in Sources : yamlCertMatch(s)
  \/ \E s \in Sources : yamlDecode(s)
  \/ \E s \in Sources : yamlIDMatch(s)
  \/ \E s \in Sources : parseReturn(s)

Spec == Init /\ [][Next]_vars

(* ---------------- several sources parsed concurrently ---------------- *)
\* one worker per source; the sources of a concurrent run hold at most one
\* path-expression pair each
ConcChoices ==
  {r \in SourceChoices : Len(r.yamlPaths) <= 1}

InitConc == InitSources({1, 2}, ConcChoices)

SpecConc == InitConc /\ [][Next]_vars

(* ---------------- reading the history ---------------- *)
\* the reader of source s has returned
Finished(s) == pc[s] \in {"return", "done"}
ReadFailed(s) == Finished(s) /\ ret[s].err # NoErr /\ ret[s].records = <<>>
ReadSucceeded(s) == Finished(s) /\ ret[s].err = NoErr
IsYAML(s) == refs[s].format = certificateFormatYAML
\* the pairs of s whose certificate-expression has been evaluated
Evaluated(s) == 1..Len(log[s].pairs)
Pair(s, i) == log[s].pairs[i]
\* the certificates of pair i and its labels differ in number
CountsDiffer(h) == h.pem = "ok" /\ h.id # "none" /\ Len(h.certs) # Len(h.ids)

RECURSIVE SumLabels(_, _)
\* the labels of pairs 1..n together
SumLabels(s, n) == IF n = 0 THEN 0 ELSE Len(Pair(s, n).ids) + SumLabels(s, n - 1)

RECURSIVE SumEmitted(_, _)
\* the records appended for pairs 1..n together
SumEmitted(s, n) == IF n = 0 THEN 0 ELSE Pair(s, n).emitted + SumEmitted(s, n - 1)

(* ---------------- C1 ---------------- *)
\* C1: in a structured-document read, for every pair with a non-empty match:
\* when the read succeeds the records emitted for the pair are as many as the
\* non-empty labels extracted for it (and the returned list holds exactly the
\* labels of all pairs); when the certificates decoded for the pair and its
\* labels differ in number the read has returned an error and no records.
C1_Correlation ==
  \A s \in Sources : IsYAML(s) =>
    /\ \A i \in Evaluated(s) : (Pair(s, i).cert = "ok" /\ Pair(s, i).matched) =>
         /\ ReadSucceeded(s) =>
              (Pair(s, i).id # "none" /\ Pair(s, i).emitted = Len(Pair(s, i).ids))
         /\ CountsDiffer(Pair(s, i)) => ReadFailed(s)
    /\ ReadSucceeded(s) => Len(ret[s].records) = SumLabels(s, Len(log[s].pairs))

\* a successful read in which a pair received two labels and emitted two records
C1_Witness ==
  \E s \in Sources : IsYAML(s) /\ pc[s] = "done" /\ err[s] = NoErr
    /\ \E i \in Evaluated(s) :
         Pair(s, i).matched /\ Len(Pair(s, i).ids) = 2 /\ Pair(s, i).emitted = 2

(* ---------------- C2 ---------------- *)
\* a failure the reader checks happened at a pair with history h
FailureAt(h) ==
  \/ h.cert = "failed"
  \/ h.file = "failed"
  \/ h.pem = "failed"
  \/ CountsDiffer(h)

IsBlock(e) == e.kind = "block"
Decoded == pemResult # Pending /\ pemData # <<>>
HasCorruptBlock(data) == \E i \in 1..Len(data) : data[i] = Block(CorruptDER)

\* C3: parsePEM on a buffer holding a block whose DER payload is corrupt
\* returns an error and no certificate, wherever the block stands.
C3_MalformedBlockFatal ==
  (pemResult # Pending /\ HasCorruptBlock(pemData)) =>
    (pemResult.err = ErrMalformed /\ pemResult.certs = <<>>)

\* a decoded buffer with a well-formed block ahead of the corrupt one
C3_Witness ==
  /\ Decoded
  /\ \E i, j \in 1..Len(pemData) : i < j /\ pemData[i] = Block(1) /\ pemData[j] = Block(CorruptDER)
  /\ pemResult.err = ErrMalformed

\* C4: parsePEM on a buffer whose K >= 0 blocks are all well-formed succeeds
\* and returns K certificates, the i-th decoded from the i-th block; with no
\* block in the buffer the result is empty and there is no error.
C4_Multiplicity ==
  (pemResult # Pending /\ ~HasCorruptBlock(pemData)) =>
    LET blocks == SelectSeq(pemData, IsBlock)
    IN /\ pemResult.err = NoErr
       /\ Len(pemResult.certs) = Len(blocks)
       /\ \A i \in 1..Len(blocks) : pemResult.certs[i] = [serial |-> blocks[i].der]

\* three blocks holding different certificates decoded in their order
C4_Witness ==
  /\ Decoded
  /\ pemData = <<Block(2), Block(1), Block(2)>>
  /\ pemResult.err = NoErr /\ Len(pemResult.certs) = 3

(* ---------------- C5 ---------------- *)
\* C5: in a structured-document read, a pair of encoding InlineBase64 whose
\* matched text is not valid base64 makes the read return an error and no
\* records.
C5_Base64FailureTerminal ==
  \A s \in Sources : IsYAML(s) =>
    \A i \in Evaluated(s) :
      (Finished(s) /\ Pair(s, i).b64 = "failed") => ReadFailed(s)

(* ---------------- C6 ---------------- *)
\* C6: in a structured-document read, a failed invocation of the evaluator,
\* for a certificate-expression or for an identity-expression, makes the read
\* return an error and no records.
C6_EvaluatorFailureTerminal ==
  \A s \in Sources : IsYAML(s) =>
    \A i \in Evaluated(s) :
      (Finished(s) /\ (Pair(s, i).cert = "failed" \/ Pair(s, i).id = "failed"))
        => ReadFailed(s)

(* ---------------- C7 ---------------- *)
\* C7: a pair whose certificate-expression matches nothing is skipped: nothing
\* else is done for the pair (no decoding, no file read, no identity
\* extraction, no record), the loop moves on to the next pair, the records
\* accumulated so far are all kept, and the skip is no error.
C7_NoMatchSkipsPair ==
  \A s \in Sources : IsYAML(s) =>
    /\ \A i \in Evaluated(s) :
         LET h == Pair(s, i)
         IN (h.cert = "ok" /\ ~h.matched) =>
              /\ h.b64 = "none" /\ h.file = "none" /\ h.pem = "none" /\ h.id = "none"
              /\ h.emitted = 0
              /\ i = Len(log[s].pairs) =>
                   /\ idx[s] = i + 1
                   /\ pc[s] \in {"yaml", "return", "done"}
                   /\ Finished(s) => ret[s].err = NoErr
    /\ pc[s] \in {"yaml", "decode", "ids"} =>
         Len(output[s]) = SumEmitted(s, Len(log[s].pairs))
    /\ ReadSucceeded(s) => Len(ret[s].records) = SumEmitted(s, Len(log[s].pairs))

\* a successful parse whose first pair emitted records and whose second pair
\* matched nothing
C7_Witness ==
  \E s \in Sources : IsYAML(s) /\ pc[s] = "done" /\ err[s] = NoErr
    /\ Len(log[s].pairs) = 2
    /\ Pair(s, 1).emitted > 0 /\ Pair(s, 2).cert = "ok" /\ ~Pair(s, 2).matched
    /\ Len(refs[s].certificates) = Pair(s, 1).emitted

(* ---------------- C8 ---------------- *)
\* C8: parse() invokes exactly one reader, the one of the source's format; when
\* the reader succeeds the source's records are the reader's and parse()
\* returns no error; when it fails parse() returns the reader's error.
C8_Dispatch ==
  \A s \in Sources :
    /\ Len(log[s].calls) <= 1
    /\ Finished(s) =>
         /\ Len(log[s].calls) = 1
         /\ refs[s].format = certificateFormatPEM => log[s].calls[1] = "readAndParsePEMFile"
         /\ refs[s].format = certificateFormatYAML => log[s].calls[1] = "readAndParseYAMLFile"
         /\ refs[s].format = certificateFormatKubeSecret
              => log[s].calls[1] = "readAndParseKubeSecret"
    /\ pc[s] = "done" =>
         /\ err[s] = ret[s].err
         /\ ret[s].err = NoErr => refs[s].certificates = ret[s].records

\* parse() done on a secret source whose reader returned records
C8_Witness ==
  \E s \in Sources :
    /\ pc[s] = "done" /\ refs[s].format = certificateFormatKubeSecret
    /\ err[s] = NoErr /\ Len(refs[s].certificates) = 2
    /\ log[s].calls = <<"readAndParseKubeSecret">>

(* ---------------- C9 ---------------- *)
\* everything source t owns: its fields and the state of its parse() call
Local(t) ==
  <<refs[t], pc[t], idx[t], output[t], rawCerts[t], certs[t], ret[t], err[t], log[t]>>

\* the records of a pair with history h and path-expressions exprs
RecordsOf(h, exprs) ==
  [j \in 1..Len(h.certs) |->
     [cert |-> h.certs[j], userID |-> h.ids[j], yqMatchExpr |-> exprs.CertMatchExpr]]

RECURSIVE AloneYAML(_, _)
\* what readAndParseYAMLFile returns for source s from pair i on, given only
\* the answers the evaluator, the file system and the decoders gave to s
AloneYAML(s, i) ==
  IF i > Len(refs[s].yamlPaths) THEN [records |-> <<>>, err |-> NoErr]
  ELSE IF i > Len(log[s].pairs) THEN [records |-> <<>>, err |-> "pending"]
  ELSE LET h == Pair(s, i)
       IN CASE h.cert = "failed" -> [records |-> <<>>, err |-> ErrQuery]
            [] h.cert = "ok" /\ ~h.matched -> AloneYAML(s, i + 1)
            [] h.cert = "ok" /\ h.matched /\ h.file = "failed" ->
                 [records |-> <<>>, err |-> ErrIO]
            [] h.cert = "ok" /\ h.matched /\ h.file # "failed" /\ h.pem = "failed" ->
                 [records |-> <<>>, err |-> ErrMalformed]
            [] h.cert = "ok" /\ h.matched /\ h.pem = "ok" /\ h.id # "none"
                 /\ Len(h.certs) # Len(h.ids) -> [records |-> <<>>, err |-> ErrLabels]
            [] h.cert = "ok" /\ h.matched /\ h.pem = "ok" /\ h.id # "none"
                 /\ Len(h.certs) = Len(h.ids) ->
                 LET rest == AloneYAML(s, i + 1)
                 IN IF rest.err # NoErr THEN rest
                    ELSE [records |-> RecordsOf(h, refs[s].yamlPaths[i]) \o rest.records,
                          err |-> NoErr]
            [] OTHER -> [records |-> <<>>, err |-> "pending"]

\* the outcome of the decoder's answer for a direct file or a secret
AlonePEM(s) ==
  IF log[s].pem # "ok" THEN [records |-> <<>>, err |-> ErrMalformed]
  ELSE [records |-> [j \in 1..Len(log[s].certs) |->
                       [cert |-> log[s].certs[j], userID |-> <<>>, yqMatchExpr |-> ""]],
        err |-> NoErr]

\* what parse() leaves in source s when it runs alone
Alone(s) ==
  CASE refs[s].format = certificateFormatPEM ->
         IF log[s].file # "ok" THEN [records |-> <<>>, err |-> ErrIO]
         ELSE AlonePEM(s)
    [] refs[s].format = certificateFormatKubeSecret ->
         IF "tls.crt" \notin DOMAIN refs[s].kubeSecret.Data
         THEN [records |-> <<>>, err |-> ErrNoKey]
         ELSE AlonePEM(s)
    [] OTHER -> AloneYAML(s, 1)

C9_SameAsAlone ==
  \A s \in Sources :
    pc[s] = "done" => [records |-> refs[s].certificates, err |-> err[s]] = Alone(s)

C9_OneSourcePerStep ==
  \E s \in Sources : \A t \in Sources \ {s} : Local(t)' = Local(t)

\* C9: with the parse() calls of different sources interleaved in any way,
\* every step touches the fields and the call state of one source only, and
\* each source ends with the records and the error its own parse() produces
\* from the answers it received.
C9_Independent == []C9_SameAsAlone /\ [][C9_OneSourcePerStep]_vars

\* two structured-document sources both parsed, with different records
C9_Witness ==
  /\ Sources = {1, 2}
  /\ \A s \in Sources : IsYAML(s) /\ pc[s] = "done" /\ err[s] = NoErr
  /\ Len(refs[1].certificates) = 2 /\ Len(refs[2].certificates) = 1

(* ---------------- C10 ---------------- *)
\* the records of pair i: the certificates parsePEM returned, each with the
\* label of the same position and the pair's certificate-expression
PairRecords(s, i) ==
  LET h == Pair(s, i)
  IN IF h.matched /\ h.pem = "ok" /\ h.id # "none"
     THEN [j \in 1..Len(h.certs) |->
             [cert |-> h.certs[j], userID |-> h.ids[j],
              yqMatchExpr |-> refs[s].yamlPaths[i].CertMatchExpr]]
     ELSE <<>>

RECURSIVE ConcatPairs(_, _)
\* the records of pairs 1..n, in declaration order
ConcatPairs(s, n) == IF n = 0 THEN <<>> ELSE ConcatPairs(s, n - 1) \o PairRecords(s, n)

\* C10: the records of a successful structured-document read are the
\* concatenation, in declaration order, of the pairs' records, the j-th record
\* of a pair holding its j-th certificate, its j-th non-empty label and the
\* pair's certificate-expression.
C10_OrderedPairing ==
  \A s \in Sources :
    (IsYAML(s) /\ pc[s] = "done" /\ err[s] = NoErr) =>
      /\ Len(log[s].pairs) = Len(refs[s].yamlPaths)
      /\ refs[s].certificates = ConcatPairs(s, Len(refs[s].yamlPaths))

\* a successful parse of two different pairs, the first with two records, the
\* second with one
C10_Witness ==
  \E s \in Sources : IsYAML(s) /\ pc[s] = "done" /\ err[s] = NoErr
    /\ Len(refs[s].yamlPaths) = 2
    /\ refs[s].yamlPaths[1].CertMatchExpr # refs[s].yamlPaths[2].CertMatchExpr
    /\ Pair(s, 1).emitted = 2 /\ Pair(s, 2).emitted = 1
    /\ Len(refs[s].certificates) = 3
====
